---- MODULE Spec2Model ----
(***************************************************************************)
(* The task hierarchy engine of backend/app.py: the flat task table, the   *)
(* four recalculation functions (WBS codes, summary dates and estimates,   *)
(* order indices, summary status) and the request handlers that mutate the *)
(* hierarchy (create, update, delete, indent, outdent, reorder).           *)
(*                                                                         *)
(* A task row is a record; the table is a function from row id to record.  *)
(* Dates are day numbers, estimates are integers, a WBS code "2.1.3" is    *)
(* the sequence <<2, 1, 3>> and the task code "<project code>-007" is its  *)
(* sequence number 7.  Python's None is the value None (0): row ids, day   *)
(* numbers and WBS components all start at 1.                              *)
(*                                                                         *)
(* A handler is one action: it covers every statement of the handler up to *)
(* its return, the recalculation functions it calls included.  A handler   *)
(* that returns an error before db.session.commit() leaves the table as it *)
(* was (the request's session is discarded).                               *)
(***************************************************************************)
EXTENDS Integers, Sequences, FiniteSets, TLC

\* Bounds of the model: the ids a table holds when only the tree is edited
\* (MaxTasks) and when task contents or order indices are edited too (MaxRows),
\* the last day, the largest estimate a caller supplies and the largest one a
\* task may hold, the largest order_index a caller supplies.
MaxTasks == 5
MaxRows == 3
MaxDate == 2
MaxEstimate == 1
MaxTotal == 2
MaxOrder == 2

\* Python's None (a NULL column).
None == 0

\* tasks is the task table and last the response of the handler that returned
\* last.  sessions and history belong to the requests that run side by side:
\* what each request in flight has loaded and how far it has come, and the
\* table and the requests the current overlap started from.
VARIABLES tasks, last, sessions, history

vars == <<tasks, last, sessions, history>>

\* The part of the state a handler that runs alone leaves as it is.
concurrent == <<sessions, history>>

\* The project rows; projects are created elsewhere and only referred to here.
Projects == {1, 2}

\* ---------------------------------------------------------------------------
\* Queries
\* ---------------------------------------------------------------------------

Range(s) == {s[i] : i \in DOMAIN s}

\* The function f with all its values computed (TLC would otherwise compute
\* f[x] anew at each use).
Strict(f) == f @@ <<>>

\* The elements of S as a sequence, ascending by the strict total order Lt.
SeqOf(S, Lt(_, _)) ==
    Strict([i \in 1..Cardinality(S) |->
               CHOOSE a \in S : Cardinality({b \in S : Lt(b, a)}) = i - 1])

\* Task.query.filter_by(project_id=project_id): the rows of one project.
filter_by_project(ts, project_id) ==
    {i \in DOMAIN ts : ts[i].project_id = project_id}

\* Task.query.filter_by(project_id=project_id).all(): rows in rowid order.
query_all(ts, project_id) ==
    SeqOf(filter_by_project(ts, project_id), LAMBDA a, b : a < b)

\* Task.query.filter_by(project_id=project_id).order_by(Task.order_index).all():
\* ascending order_index; rows with equal order_index stay in rowid order
\* (the table is scanned by rowid and the sort keeps ties as scanned).
query_ordered(ts, project_id) ==
    SeqOf(filter_by_project(ts, project_id),
          LAMBDA a, b : \/ ts[a].order_index < ts[b].order_index
                        \/ /\ ts[a].order_index = ts[b].order_index
                           /\ a < b)

\* Task.query.filter_by(parent_id=id).all(): the rows whose parent is id.
filter_by_parent(ts, id) ==
    SeqOf({i \in DOMAIN ts : ts[i].parent_id = id}, LAMBDA a, b : a < b)

\* The parent -> children dictionary the recalculation functions build from a
\* task list: a task with a falsy parent_id is in no list, children keep the
\* order of the list.
children_map(ts, task_list) ==
    Strict([k \in {ts[t].parent_id : t \in Range(task_list)} \ {None} |->
               SelectSeq(task_list, LAMBDA t : ts[t].parent_id = k)])

\* children_map.get(id, [])
get(cm, id) == IF id \in DOMAIN cm THEN cm[id] ELSE <<>>

\* list.sort(key=lambda x: x.order_index): Python's sort is stable.
sort_by_order_index(ts, task_list) ==
    LET n == Len(task_list)
        pos(i) == Cardinality({j \in 1..n :
                      \/ ts[task_list[j]].order_index < ts[task_list[i]].order_index
                      \/ /\ ts[task_list[j]].order_index = ts[task_list[i]].order_index
                         /\ j < i})
    IN Strict([k \in 1..n |-> task_list[CHOOSE i \in 1..n : pos(i) = k - 1]])

\* ---------------------------------------------------------------------------
\* update_wbs_codes
\* ---------------------------------------------------------------------------

RECURSIVE assign_wbs(_, _, _, _, _)
\* assign_wbs without its else branch: is_summary is set and never cleared.
assign_wbs_keep_summary(ts, cm, task_list, prefix, idx) ==
    IF idx > Len(task_list) THEN ts
    ELSE LET task == task_list[idx]
             wbs == Append(prefix, idx)
             children == get(cm, task)
             t1 == [ts EXCEPT ![task].wbs_code = wbs,
                              ![task].is_summary = (@ \/ children # <<>>)]
             t2 == IF children # <<>>
                   THEN assign_wbs(t1, cm, children, wbs, 1)
                   ELSE t1
         IN assign_wbs(t2, cm, task_list, prefix, idx + 1)

\* assign_wbs(task_list, prefix), from the idx-th element of task_list on.
assign_wbs(ts, cm, task_list, prefix, idx) ==
    IF idx > Len(task_list) THEN ts
    ELSE LET task == task_list[idx]
             wbs == Append(prefix, idx)
             children == get(cm, task)
             t1 == [ts EXCEPT ![task].wbs_code = wbs,
                              ![task].is_summary = (children # <<>>)]
             t2 == IF children # <<>>
                   THEN assign_wbs(t1, cm, children, wbs, 1)
                   ELSE t1
         IN assign_wbs(t2, cm, task_list, prefix, idx + 1)

\* update_wbs_codes with the order_by of its query left out.
update_wbs_codes_by_id(ts, project_id) ==
    LET task_list == query_all(ts, project_id)
        root_tasks == SelectSeq(task_list, LAMBDA t : ts[t].parent_id = None)
    IN assign_wbs(ts, children_map(ts, task_list), root_tasks, <<>>, 1)

\* update_wbs_codes that sets the level of a task from the length of its code
\* as well.
update_wbs_codes_with_levels(ts, project_id) ==
    LET task_list == query_ordered(ts, project_id)
        root_tasks == SelectSeq(task_list, LAMBDA t : ts[t].parent_id = None)
        coded == assign_wbs(ts, children_map(ts, task_list), root_tasks, <<>>, 1)
    IN Strict([i \in DOMAIN coded |->
           IF coded[i].project_id = project_id /\ coded[i].wbs_code # <<>>
           THEN [coded[i] EXCEPT !.level = Len(coded[i].wbs_code) - 1]
           ELSE coded[i]])

update_wbs_codes(ts, project_id) ==
    LET task_list == query_ordered(ts, project_id)
        root_tasks == SelectSeq(task_list, LAMBDA t : ts[t].parent_id = None)
    IN assign_wbs(ts, children_map(ts, task_list), root_tasks, <<>>, 1)

\* ---------------------------------------------------------------------------
\* recalculate_summary_dates
\* ---------------------------------------------------------------------------

RECURSIVE get_date_range(_, _, _)
RECURSIVE fold_date_range(_, _, _, _, _)
RECURSIVE get_total_estimate(_, _, _)
RECURSIVE fold_total_estimate(_, _, _, _, _)

\* The loop of get_date_range over children, from the i-th child on;
\* acc is <<min_start, max_end>>.
fold_date_range(ts, cm, children, i, acc) ==
    IF i > Len(children) THEN acc
    ELSE LET r == get_date_range(ts, cm, children[i])
             min_start == IF r[1] # None /\ (acc[1] = None \/ r[1] < acc[1])
                          THEN r[1] ELSE acc[1]
             max_end == IF r[2] # None /\ (acc[2] = None \/ r[2] > acc[2])
                        THEN r[2] ELSE acc[2]
         IN fold_date_range(ts, cm, children, i + 1, <<min_start, max_end>>)

\* get_date_range starting from the summary task's own dates.
get_date_range_with_own(ts, cm, task_id) ==
    IF task_id \notin DOMAIN ts THEN <<None, None>>
    ELSE fold_date_range(ts, cm, get(cm, task_id), 1,
                         <<ts[task_id].start_date, ts[task_id].end_date>>)

get_date_range(ts, cm, task_id) ==
    IF task_id \notin DOMAIN ts THEN <<None, None>>
    ELSE LET children == get(cm, task_id)
         IN IF children = <<>>
            THEN <<ts[task_id].start_date, ts[task_id].end_date>>
            ELSE fold_date_range(ts, cm, children, 1, <<None, None>>)

fold_total_estimate(ts, cm, children, i, total) ==
    IF i > Len(children) THEN total
    ELSE fold_total_estimate(ts, cm, children, i + 1,
                             total + get_total_estimate(ts, cm, children[i]))

get_total_estimate(ts, cm, task_id) ==
    IF task_id \notin DOMAIN ts THEN 0
    ELSE LET children == get(cm, task_id)
         IN IF children = <<>>
            THEN ts[task_id].estimate
            ELSE fold_total_estimate(ts, cm, children, 1, 0)

\* The loop over summary_ids writes only rows that have children, and
\* get_date_range / get_total_estimate read only rows that have none, so the
\* iteration order of the set does not matter.
recalculate_summary_dates(ts, project_id) ==
    LET task_list == query_all(ts, project_id)
        cm == children_map(ts, task_list)
        summary_ids == DOMAIN cm
    IN Strict([i \in DOMAIN ts |->
          IF i \in summary_ids /\ i \in Range(task_list)
          THEN LET r == get_date_range(ts, cm, i)
                   ok == r[1] # None /\ r[2] # None
               IN [ts[i] EXCEPT !.start_date = IF ok THEN r[1] ELSE @,
                                !.end_date = IF ok THEN r[2] ELSE @,
                                !.estimate = get_total_estimate(ts, cm, i),
                                !.is_summary = TRUE]
          ELSE ts[i]])

\* ---------------------------------------------------------------------------
\* recalculate_order_indices
\* ---------------------------------------------------------------------------

RECURSIVE assign_order(_, _, _, _, _)
\* assign_order that does not carry the counter back from the children.
assign_order_restart(ts, cm, task_list, i, counter) ==
    IF i > Len(task_list) THEN <<ts, counter>>
    ELSE LET task == task_list[i]
             t1 == [ts EXCEPT ![task].order_index = counter]
             children == get(cm, task)
             r == IF children # <<>>
                  THEN <<assign_order(t1, cm, children, 1, counter + 1)[1], counter + 1>>
                  ELSE <<t1, counter + 1>>
         IN assign_order(r[1], cm, task_list, i + 1, r[2])

\* assign_order(task_list, counter), from the i-th element of task_list on;
\* the value is <<table, counter>>.
assign_order(ts, cm, task_list, i, counter) ==
    IF i > Len(task_list) THEN <<ts, counter>>
    ELSE LET task == task_list[i]
             t1 == [ts EXCEPT ![task].order_index = counter]
             children == get(cm, task)
             r == IF children # <<>>
                  THEN assign_order(t1, cm, children, 1, counter + 1)
                  ELSE <<t1, counter + 1>>
         IN assign_order(r[1], cm, task_list, i + 1, r[2])

\* recalculate_order_indices that takes the tasks in the order of their row
\* ids instead of their order_index.
recalculate_order_indices_by_rowid(ts, project_id) ==
    LET task_list == query_all(ts, project_id)
        roots == SelectSeq(task_list, LAMBDA t : ts[t].parent_id = None)
        cm == children_map(ts, task_list)
    IN assign_order(ts, cm, roots, 1, 0)[1]

recalculate_order_indices(ts, project_id) ==
    LET task_list == query_ordered(ts, project_id)
        roots == SelectSeq(task_list, LAMBDA t : ts[t].parent_id = None)
        cm0 == children_map(ts, task_list)
        cm == Strict([k \in DOMAIN cm0 |-> sort_by_order_index(ts, cm0[k])])
        root_tasks == sort_by_order_index(ts, roots)
    IN assign_order(ts, cm, root_tasks, 1, 0)[1]

\* ---------------------------------------------------------------------------
\* recalculate_summary_status
\* ---------------------------------------------------------------------------

\* parent_status that takes a mix of complete and not started children for
\* not started.
parent_status_mixed_not_started(child_statuses) ==
    IF \E i \in DOMAIN child_statuses : child_statuses[i] = "In Progress"
    THEN "In Progress"
    ELSE IF \A i \in DOMAIN child_statuses : child_statuses[i] = "Complete"
    THEN "Complete"
    ELSE "Not Started"

\* The status a parent gets from the statuses of its children.
parent_status(child_statuses) ==
    IF \E i \in DOMAIN child_statuses : child_statuses[i] = "In Progress"
    THEN "In Progress"
    ELSE IF \A i \in DOMAIN child_statuses : child_statuses[i] = "Complete"
    THEN "Complete"
    ELSE IF \A i \in DOMAIN child_statuses : child_statuses[i] = "Not Started"
    THEN "Not Started"
    ELSE "In Progress"

RECURSIVE update_parent_status(_, _, _)
RECURSIVE update_nested_children(_, _, _, _)

\* "for child in children: update_parent_status(child)", from the i-th on.
update_nested_children(ts, cm, children, i) ==
    IF i > Len(children) THEN ts
    ELSE update_nested_children(update_parent_status(ts, cm, children[i]),
                                cm, children, i + 1)

\* update_parent_status that sets the parent before it visits the children.
update_parent_status_top_down(ts, cm, task) ==
    LET children == get(cm, task)
    IN IF children = <<>> THEN ts
       ELSE LET child_statuses ==
                    Strict([i \in DOMAIN children |-> ts[children[i]].status])
                t1 == [ts EXCEPT ![task].status = parent_status(child_statuses)]
            IN update_nested_children(t1, cm, children, 1)

update_parent_status(ts, cm, task) ==
    LET children == get(cm, task)
    IN IF children = <<>> THEN ts
       ELSE LET t1 == update_nested_children(ts, cm, children, 1)
                child_statuses ==
                    Strict([i \in DOMAIN children |-> t1[children[i]].status])
            IN [t1 EXCEPT ![task].status = parent_status(child_statuses)]

recalculate_summary_status(ts, project_id) ==
    LET task_list == query_all(ts, project_id)
        cm == children_map(ts, task_list)
        root_tasks == SelectSeq(task_list, LAMBDA t : ts[t].parent_id = None)
    IN update_nested_children(ts, cm, root_tasks, 1)

\* ---------------------------------------------------------------------------
\* Request handlers
\* ---------------------------------------------------------------------------

\* The three recalculations that end delete_task, indent_task and outdent_task
\* ("Recalculate everything").
recalculate_hierarchy(ts, project_id) ==
    recalculate_order_indices(
        recalculate_summary_dates(
            update_wbs_codes(ts, project_id), project_id), project_id)

\* The id a new row gets: an INTEGER PRIMARY KEY is one more than the largest
\* id in the table.
next_id(ts) ==
    IF DOMAIN ts = {} THEN 1
    ELSE (CHOOSE m \in DOMAIN ts : \A i \in DOMAIN ts : i <= m) + 1

\* What a handler leaves behind for the caller: the handler, the project and
\* the task it was about (None when there is none) and the HTTP status it
\* returned.
Response(op, project_id, id, code) ==
    [op |-> op, project_id |-> project_id, id |-> id, code |-> code]

\* create_task without the validation of its dates.
create_task_unvalidated(project_id, data) ==
    LET task_count == Cardinality(filter_by_project(tasks, project_id))
        id == next_id(tasks)
        task == [project_id |-> project_id,
                 task_id |-> task_count + 1,
                 start_date |-> data.start_date,
                 end_date |-> data.end_date,
                 estimate |-> data.estimate,
                 status |-> data.status,
                 progress |-> data.progress,
                 order_index |-> task_count,
                 parent_id |-> None,
                 level |-> 0,
                 wbs_code |-> <<>>,
                 is_summary |-> FALSE]
    IN /\ id <= MaxTasks
       /\ tasks' = update_wbs_codes((id :> task) @@ tasks, project_id)
       /\ last' = Response("create_task", project_id, id, 201)

\* POST /api/projects/<project_id>/tasks.  data has start_date, end_date,
\* estimate, status and progress.  The table holds at most MaxTasks ids.
create_task(project_id, data) ==
    LET task_count == Cardinality(filter_by_project(tasks, project_id))
        id == next_id(tasks)
        task == [project_id |-> project_id,
                 task_id |-> task_count + 1,
                 start_date |-> data.start_date,
                 end_date |-> data.end_date,
                 estimate |-> data.estimate,
                 status |-> data.status,
                 progress |-> data.progress,
                 order_index |-> task_count,
                 parent_id |-> None,
                 level |-> 0,
                 wbs_code |-> <<>>,
                 is_summary |-> FALSE]
    IN /\ id <= MaxTasks
       /\ IF data.end_date < data.start_date
          THEN /\ tasks' = tasks
               /\ last' = Response("create_task", project_id, None, 400)
          ELSE /\ tasks' = update_wbs_codes((id :> task) @@ tasks, project_id)
               /\ last' = Response("create_task", project_id, id, 201)

\* max(0, min(100, progress))
clamp(progress) ==
    LET m == IF progress < 100 THEN progress ELSE 100
    IN IF m > 0 THEN m ELSE 0

\* update_task that commits before it validates the dates.
update_task_commit_first(task_id, data) ==
    IF task_id \notin DOMAIN tasks
    THEN /\ tasks' = tasks
         /\ last' = Response("update_task", None, task_id, 404)
    ELSE LET task == tasks[task_id]
             has(k) == k \in DOMAIN data
             editable == ~task.is_summary
             new == [task EXCEPT
                       !.start_date = IF editable /\ has("start_date")
                                      THEN data.start_date ELSE @,
                       !.end_date = IF editable /\ has("end_date")
                                    THEN data.end_date ELSE @,
                       !.estimate = IF editable /\ has("estimate")
                                    THEN data.estimate ELSE @,
                       !.status = IF has("status") THEN data.status ELSE @,
                       !.progress = IF has("progress")
                                    THEN clamp(data.progress) ELSE @,
                       !.order_index = IF has("order_index")
                                       THEN data.order_index ELSE @]
         IN /\ tasks' = [tasks EXCEPT ![task_id] = new]
            /\ last' = Response("update_task", task.project_id, task_id,
                                IF ~new.is_summary /\ new.end_date < new.start_date
                                THEN 400 ELSE 200)

\* update_task that assigns the dates and the estimate outside its test of
\* is_summary.
update_task_summary_editable(task_id, data) ==
    IF task_id \notin DOMAIN tasks
    THEN /\ tasks' = tasks
         /\ last' = Response("update_task", None, task_id, 404)
    ELSE LET task == tasks[task_id]
             project_id == task.project_id
             has(k) == k \in DOMAIN data
             editable == ~task.is_summary
             dates_changed == editable /\ (has("start_date") \/ has("end_date"))
             estimate_changed == has("estimate") /\ ~task.is_summary
             new == [task EXCEPT
                       !.start_date = IF has("start_date") THEN data.start_date ELSE @,
                       !.end_date = IF has("end_date") THEN data.end_date ELSE @,
                       !.estimate = IF has("estimate") THEN data.estimate ELSE @,
                       !.status = IF has("status") THEN data.status ELSE @,
                       !.progress = IF has("progress")
                                    THEN clamp(data.progress) ELSE @,
                       !.order_index = IF has("order_index")
                                       THEN data.order_index ELSE @]
             t1 == [tasks EXCEPT ![task_id] = new]
             t2 == IF dates_changed \/ estimate_changed
                   THEN recalculate_summary_dates(t1, project_id)
                   ELSE t1
             t3 == IF has("status")
                   THEN recalculate_summary_status(t2, project_id)
                   ELSE t2
         IN IF ~new.is_summary /\ new.end_date < new.start_date
            THEN /\ tasks' = tasks
                 /\ last' = Response("update_task", project_id, task_id, 400)
            ELSE /\ tasks' = t3
                 /\ last' = Response("update_task", project_id, task_id, 200)

\* update_task that propagates statuses only after an update of a task that
\* is not a summary.
update_task_status_kept(task_id, data) ==
    IF task_id \notin DOMAIN tasks
    THEN /\ tasks' = tasks
         /\ last' = Response("update_task", None, task_id, 404)
    ELSE LET task == tasks[task_id]
             project_id == task.project_id
             has(k) == k \in DOMAIN data
             editable == ~task.is_summary
             dates_changed == editable /\ (has("start_date") \/ has("end_date"))
             estimate_changed == has("estimate") /\ ~task.is_summary
             new == [task EXCEPT
                       !.start_date = IF editable /\ has("start_date")
                                      THEN data.start_date ELSE @,
                       !.end_date = IF editable /\ has("end_date")
                                    THEN data.end_date ELSE @,
                       !.estimate = IF editable /\ has("estimate")
                                    THEN data.estimate ELSE @,
                       !.status = IF has("status") THEN data.status ELSE @,
                       !.progress = IF has("progress")
                                    THEN clamp(data.progress) ELSE @,
                       !.order_index = IF has("order_index")
                                       THEN data.order_index ELSE @]
             t1 == [tasks EXCEPT ![task_id] = new]
             t2 == IF dates_changed \/ estimate_changed
                   THEN recalculate_summary_dates(t1, project_id)
                   ELSE t1
             t3 == IF has("status") /\ ~task.is_summary
                   THEN recalculate_summary_status(t2, project_id)
                   ELSE t2
         IN IF ~new.is_summary /\ new.end_date < new.start_date
            THEN /\ tasks' = tasks
                 /\ last' = Response("update_task", project_id, task_id, 400)
            ELSE /\ tasks' = t3
                 /\ last' = Response("update_task", project_id, task_id, 200)

\* PUT /api/tasks/<task_id>.  data is a dictionary: a key is supplied iff it
\* is in DOMAIN data.
update_task(task_id, data) ==
    IF task_id \notin DOMAIN tasks
    THEN /\ tasks' = tasks
         /\ last' = Response("update_task", None, task_id, 404)
    ELSE LET task == tasks[task_id]
             project_id == task.project_id
             has(k) == k \in DOMAIN data
             editable == ~task.is_summary
             dates_changed == editable /\ (has("start_date") \/ has("end_date"))
             estimate_changed == has("estimate") /\ ~task.is_summary
             new == [task EXCEPT
                       !.start_date = IF editable /\ has("start_date")
                                      THEN data.start_date ELSE @,
                       !.end_date = IF editable /\ has("end_date")
                                    THEN data.end_date ELSE @,
                       !.estimate = IF editable /\ has("estimate")
                                    THEN data.estimate ELSE @,
                       !.status = IF has("status") THEN data.status ELSE @,
                       !.progress = IF has("progress")
                                    THEN clamp(data.progress) ELSE @,
                       !.order_index = IF has("order_index")
                                       THEN data.order_index ELSE @]
             t1 == [tasks EXCEPT ![task_id] = new]
             t2 == IF dates_changed \/ estimate_changed
                   THEN recalculate_summary_dates(t1, project_id)
                   ELSE t1
             t3 == IF has("status")
                   THEN recalculate_summary_status(t2, project_id)
                   ELSE t2
         IN IF ~new.is_summary /\ new.end_date < new.start_date
            THEN /\ tasks' = tasks
                 /\ last' = Response("update_task", project_id, task_id, 400)
            ELSE /\ tasks' = t3
                 /\ last' = Response("update_task", project_id, task_id, 200)

\* delete_task that leaves the children of the deleted task as they are.
delete_task_orphaning(task_id) ==
    IF task_id \notin DOMAIN tasks
    THEN /\ tasks' = tasks
         /\ last' = Response("delete_task", None, task_id, 404)
    ELSE LET project_id == tasks[task_id].project_id
             t1 == Strict([c \in DOMAIN tasks \ {task_id} |-> tasks[c]])
             t2 == update_wbs_codes(t1, project_id)
             t3 == recalculate_summary_dates(t2, project_id)
             t4 == recalculate_order_indices(t3, project_id)
         IN /\ tasks' = t4
            /\ last' = Response("delete_task", project_id, task_id, 200)

\* delete_task that moves the children to the parent of the deleted task and
\* leaves their level as it is.
delete_task_keep_level(task_id) ==
    IF task_id \notin DOMAIN tasks
    THEN /\ tasks' = tasks
         /\ last' = Response("delete_task", None, task_id, 404)
    ELSE LET task == tasks[task_id]
             children == Range(filter_by_parent(tasks, task_id))
             t1 == Strict([c \in DOMAIN tasks \ {task_id} |->
                      IF c \in children
                      THEN [tasks[c] EXCEPT !.parent_id = task.parent_id]
                      ELSE tasks[c]])
         IN /\ tasks' = recalculate_hierarchy(t1, task.project_id)
            /\ last' = Response("delete_task", task.project_id, task_id, 200)

\* DELETE /api/tasks/<task_id>.  The rows are committed as the handler assigns
\* them: a child of the deleted task gets the parent_id and the level of lines
\* 563 to 567.
delete_task(task_id) ==
    IF task_id \notin DOMAIN tasks
    THEN /\ tasks' = tasks
         /\ last' = Response("delete_task", None, task_id, 404)
    ELSE LET task == tasks[task_id]
             project_id == task.project_id
             children == Range(filter_by_parent(tasks, task_id))
             t1 == Strict([c \in DOMAIN tasks \ {task_id} |->
                      IF c \in children
                      THEN [tasks[c] EXCEPT
                              !.parent_id = task.parent_id,
                              !.level = IF task.parent_id # None
                                        THEN task.level ELSE 0]
                      ELSE tasks[c]])
             t2 == update_wbs_codes(t1, project_id)
             t3 == recalculate_summary_dates(t2, project_id)
             t4 == recalculate_order_indices(t3, project_id)
         IN /\ tasks' = t4
            /\ last' = Response("delete_task", project_id, task_id, 200)

RECURSIVE update_descendants(_, _)
RECURSIVE update_descendants_loop(_, _, _, _)

\* "for child in children: child.level = parent_task.level + 1;
\* update_descendants(child)", from the i-th child on.
update_descendants_loop(ts, parent_task, children, i) ==
    IF i > Len(children) THEN ts
    ELSE LET child == children[i]
             t1 == [ts EXCEPT ![child].level = ts[parent_task].level + 1]
         IN update_descendants_loop(update_descendants(t1, child),
                                    parent_task, children, i + 1)

\* update_descendants of indent_task and of outdent_task (the level_offset
\* argument of the former is not used).
update_descendants(ts, parent_task) ==
    update_descendants_loop(ts, parent_task, filter_by_parent(ts, parent_task), 1)

\* The position of task_id in task_list, counted from 1; 0 when it is not in
\* it (the code counts from 0 and yields -1).
index_of(task_list, task_id) ==
    IF \E i \in DOMAIN task_list : task_list[i] = task_id
    THEN CHOOSE i \in DOMAIN task_list : task_list[i] = task_id
    ELSE 0

\* The backward scan of indent_task: the nearest task before position
\* task_index whose level is not deeper than level; None when there is none.
potential_parent(ts, task_list, task_index, level) ==
    LET cand == {i \in 1..(task_index - 1) : ts[task_list[i]].level <= level}
    IN IF cand = {} THEN None
       ELSE task_list[CHOOSE i \in cand : \A j \in cand : j <= i]

\* The parent indent_task finds for task_id in the table ts; None when it
\* finds none.
indent_parent(ts, task_id) ==
    LET task_list == query_ordered(ts, ts[task_id].project_id)
    IN potential_parent(ts, task_list, index_of(task_list, task_id),
                        ts[task_id].level)

\* indent_task returns an error: the task is the first of its project, or no
\* task before it is at its level or above.
indent_rejected(ts, task_id) ==
    \/ index_of(query_ordered(ts, ts[task_id].project_id), task_id) <= 1
    \/ indent_parent(ts, task_id) = None

\* "Update hierarchy" of indent_task, up to its commit.
indent_update(ts, task_id) ==
    LET parent == indent_parent(ts, task_id)
        t1 == [ts EXCEPT ![task_id].parent_id = parent,
                         ![task_id].level = ts[parent].level + 1,
                         ![parent].is_summary = TRUE]
    IN update_descendants(t1, task_id)

\* POST /api/tasks/<task_id>/indent
indent_task(task_id) ==
    IF task_id \notin DOMAIN tasks
    THEN /\ tasks' = tasks
         /\ last' = Response("indent_task", None, task_id, 404)
    ELSE LET project_id == tasks[task_id].project_id
         IN IF indent_rejected(tasks, task_id)
            THEN /\ tasks' = tasks
                 /\ last' = Response("indent_task", project_id, task_id, 400)
            ELSE /\ tasks' = recalculate_hierarchy(indent_update(tasks, task_id),
                                                   project_id)
                 /\ last' = Response("indent_task", project_id, task_id, 200)

\* The table indent_task leaves when it is called on the table ts.
indent_task_result(ts, task_id) ==
    IF indent_rejected(ts, task_id) THEN ts
    ELSE recalculate_hierarchy(indent_update(ts, task_id), ts[task_id].project_id)

RECURSIVE capture_siblings(_, _, _, _, _)
\* The loop of outdent_task over the tasks after task_id, from position i on.
capture_siblings(ts, all_tasks, i, task_id, old_parent) ==
    IF i > Len(all_tasks) THEN ts
    ELSE LET sibling == all_tasks[i]
         IN IF ts[sibling].parent_id = old_parent
            THEN capture_siblings(
                     [ts EXCEPT ![sibling].parent_id = task_id,
                                ![sibling].level = ts[task_id].level + 1,
                                ![task_id].is_summary = TRUE],
                     all_tasks, i + 1, task_id, old_parent)
            ELSE IF ts[sibling].level <= ts[old_parent].level
            THEN ts
            ELSE capture_siblings(ts, all_tasks, i + 1, task_id, old_parent)

\* outdent_task returns an error: the task is a root, or its parent is gone.
outdent_rejected(ts, task_id) ==
    \/ ts[task_id].level = 0
    \/ ts[task_id].parent_id = None
    \/ ts[task_id].parent_id \notin DOMAIN ts

\* outdent_task without the loop over the tasks after task_id.
outdent_update_no_capture(ts, task_id) ==
    LET old_parent == ts[task_id].parent_id
        t1 == [ts EXCEPT ![task_id].parent_id = ts[old_parent].parent_id,
                         ![task_id].level = ts[old_parent].level]
        t3 == update_descendants(t1, task_id)
    IN IF Len(filter_by_parent(t3, old_parent)) = 0
       THEN [t3 EXCEPT ![old_parent].is_summary = FALSE]
       ELSE t3

\* outdent_task from "Move task to parent's level" up to its commit.
outdent_update(ts, task_id) ==
    LET project_id == ts[task_id].project_id
        old_parent == ts[task_id].parent_id
        t1 == [ts EXCEPT ![task_id].parent_id = ts[old_parent].parent_id,
                         ![task_id].level = ts[old_parent].level]
        all_tasks == query_ordered(t1, project_id)
        task_index == index_of(all_tasks, task_id)
        t2 == capture_siblings(t1, all_tasks, task_index + 1, task_id, old_parent)
        t3 == update_descendants(t2, task_id)
    IN IF Len(filter_by_parent(t3, old_parent)) = 0
       THEN [t3 EXCEPT ![old_parent].is_summary = FALSE]
       ELSE t3

\* POST /api/tasks/<task_id>/outdent
outdent_task(task_id) ==
    IF task_id \notin DOMAIN tasks
    THEN /\ tasks' = tasks
         /\ last' = Response("outdent_task", None, task_id, 404)
    ELSE LET project_id == tasks[task_id].project_id
         IN IF outdent_rejected(tasks, task_id)
            THEN /\ tasks' = tasks
                 /\ last' = Response("outdent_task", project_id, task_id, 400)
            ELSE /\ tasks' = recalculate_hierarchy(outdent_update(tasks, task_id),
                                                   project_id)
                 /\ last' = Response("outdent_task", project_id, task_id, 200)

\* The table outdent_task leaves when it is called on the table ts.
outdent_task_result(ts, task_id) ==
    IF outdent_rejected(ts, task_id) THEN ts
    ELSE recalculate_hierarchy(outdent_update(ts, task_id), ts[task_id].project_id)

RECURSIVE assign_task_orders(_, _, _, _)
\* The loop of reorder_tasks over task_orders, from the i-th item on.
assign_task_orders(ts, project_id, task_orders, i) ==
    IF i > Len(task_orders) THEN ts
    ELSE LET item == task_orders[i]
             t1 == IF item.id \in DOMAIN ts /\ ts[item.id].project_id = project_id
                   THEN [ts EXCEPT ![item.id].order_index = item.order_index]
                   ELSE ts
         IN assign_task_orders(t1, project_id, task_orders, i + 1)

\* reorder_tasks that runs the order indexer after the other recalculations.
reorder_tasks_reindexed(ts, project_id, task_orders) ==
    recalculate_hierarchy(assign_task_orders(ts, project_id, task_orders, 1),
                          project_id)

\* The table reorder_tasks leaves when it is called on the table ts.
reorder_tasks_result(ts, project_id, task_orders) ==
    LET t1 == assign_task_orders(ts, project_id, task_orders, 1)
        t2 == update_wbs_codes(t1, project_id)
        t3 == recalculate_summary_dates(t2, project_id)
    IN t3

\* POST /api/projects/<project_id>/reorder.  task_orders is a list of
\* {id, order_index}.
reorder_tasks(project_id, task_orders) ==
    /\ tasks' = reorder_tasks_result(tasks, project_id, task_orders)
    /\ last' = Response("reorder_tasks", project_id, None, 200)

\* The four recalculation functions one after the other.
pipeline(ts, project_id) ==
    recalculate_summary_status(
        recalculate_order_indices(
            recalculate_summary_dates(
                update_wbs_codes(ts, project_id), project_id), project_id), project_id)

\* One run of the whole recalculation pipeline on a project.
run_pipeline(project_id) ==
    /\ tasks' = pipeline(tasks, project_id)
    /\ last' = Response("pipeline", project_id, None, 200)

\* ---------------------------------------------------------------------------
\* Requests side by side
\* ---------------------------------------------------------------------------
\* Two requests can be in flight at once (the server handles each request in its
\* own database session).  A request is cut at its commits: it loads and
\* validates, it commits its own assignments, and then each recalculation
\* function loads the table anew and commits.  Between load and commit the
\* request reads the rows it has loaded as it loaded them; its commit writes
\* the columns it has given a new value and no others.

Sessions == {1, 2}

Idle == [op |-> "none", id |-> None, pc |-> "idle", loaded |-> <<>>]

AllIdle(ss) == \A s \in Sessions : ss[s].pc = "idle"

\* The rows of ids as a session holds them once loaded.
load(ts, ids) == Strict([r \in ids \cap DOMAIN ts |-> ts[r]])

\* The table as a session sees it: the rows it has loaded as they were when it
\* loaded them, the other rows as they are now.
session_view(ts, loaded) ==
    Strict([r \in DOMAIN ts |-> IF r \in DOMAIN loaded THEN loaded[r] ELSE ts[r]])

\* db.session.commit() with the view as read and as written: a column is
\* written when the session gave it a value other than the one it read.
flush(ts, read, written) ==
    Strict([r \in DOMAIN ts |->
        [f \in DOMAIN ts[r] |->
            IF written[r][f] # read[r][f] THEN written[r][f] ELSE ts[r][f]]])

\* A request starts: the overlap it belongs to is noted.
started(op, task_id) ==
    IF AllIdle(sessions)
    THEN [base |-> tasks, ops |-> <<[op |-> op, id |-> task_id]>>, stale |-> FALSE]
    ELSE [history EXCEPT !.ops = Append(@, [op |-> op, id |-> task_id])]

\* indent_task up to its second error return, in session s.
load_indent(s, task_id) ==
    /\ sessions[s].pc = "idle"
    /\ AllIdle(sessions) \/ Len(history.ops) < 2
    /\ task_id \in DOMAIN tasks
    /\ IF indent_rejected(tasks, task_id)
       THEN /\ last' = Response("indent_task", tasks[task_id].project_id, task_id, 400)
            /\ UNCHANGED <<tasks, sessions, history>>
       ELSE /\ sessions' = [sessions EXCEPT ![s] =
                   [op |-> "indent_task", id |-> task_id, pc |-> "loaded",
                    loaded |-> load(tasks, filter_by_project(tasks,
                                                tasks[task_id].project_id))]]
            /\ history' = started("indent_task", task_id)
            /\ UNCHANGED <<tasks, last>>

\* outdent_task up to its second error return, in session s.
load_outdent(s, task_id) ==
    /\ sessions[s].pc = "idle"
    /\ AllIdle(sessions) \/ Len(history.ops) < 2
    /\ task_id \in DOMAIN tasks
    /\ IF outdent_rejected(tasks, task_id)
       THEN /\ last' = Response("outdent_task", tasks[task_id].project_id, task_id, 400)
            /\ UNCHANGED <<tasks, sessions, history>>
       ELSE /\ sessions' = [sessions EXCEPT ![s] =
                   [op |-> "outdent_task", id |-> task_id, pc |-> "loaded",
                    loaded |-> load(tasks, {task_id, tasks[task_id].parent_id})]]
            /\ history' = started("outdent_task", task_id)
            /\ UNCHANGED <<tasks, last>>

\* The assignments of the handler of session s and its db.session.commit().
commit_session(s) ==
    /\ sessions[s].pc = "loaded"
    /\ LET id == sessions[s].id
           read == session_view(tasks, sessions[s].loaded)
           written == IF sessions[s].op = "indent_task"
                      THEN indent_update(read, id)
                      ELSE outdent_update(read, id)
           parent == indent_parent(read, id)
       IN /\ tasks' = flush(tasks, read, written)
          /\ history' = [history EXCEPT !.stale =
                            @ \/ /\ sessions[s].op = "indent_task"
                                 /\ read[parent].level # tasks[parent].level
                                 /\ written[id].level # read[id].level]
    /\ sessions' = [sessions EXCEPT ![s].pc = "update_wbs_codes", ![s].loaded = <<>>]
    /\ UNCHANGED last

\* The next recalculation function of the handler of session s; after the
\* last one the handler returns.
recalculate_session(s) ==
    LET project_id == tasks[sessions[s].id].project_id
    IN \/ /\ sessions[s].pc = "update_wbs_codes"
          /\ tasks' = update_wbs_codes(tasks, project_id)
          /\ sessions' = [sessions EXCEPT ![s].pc = "recalculate_summary_dates"]
          /\ UNCHANGED <<last, history>>
       \/ /\ sessions[s].pc = "recalculate_summary_dates"
          /\ tasks' = recalculate_summary_dates(tasks, project_id)
          /\ sessions' = [sessions EXCEPT ![s].pc = "recalculate_order_indices"]
          /\ UNCHANGED <<last, history>>
       \/ /\ sessions[s].pc = "recalculate_order_indices"
          /\ tasks' = recalculate_order_indices(tasks, project_id)
          /\ sessions' = [sessions EXCEPT ![s] = Idle]
          /\ last' = Response(sessions[s].op, project_id, sessions[s].id, 200)
          /\ UNCHANGED history

\* ---------------------------------------------------------------------------
\* Specifications
\* ---------------------------------------------------------------------------

\* The empty table of a fresh database.
Init ==
    /\ tasks = <<>>
    /\ last = Response("init", None, None, 200)
    /\ sessions = [s \in Sessions |-> Idle]
    /\ history = [base |-> <<>>, ops |-> <<>>, stale |-> FALSE]

Statuses == {"Not Started", "In Progress", "Complete", "On Hold"}

TaskIds == 1..MaxTasks

RowIds == 1..MaxRows

\* The request bodies of create_task.
CreateData(dates, estimates, statuses, progresses) ==
    [start_date : dates, end_date : dates, estimate : estimates,
     status : statuses, progress : progresses]

\* task_orders of one item.
OneTaskOrder(ids, orders) ==
    {<<[id |-> t, order_index |-> o]>> : t \in ids, o \in orders}

\* task_orders of one item, or of two items about two tasks.
TaskOrders(ids, orders) ==
    LET items == [id : ids, order_index : orders]
    IN {<<a>> : a \in items}
       \cup {<<ab[1], ab[2]>> : ab \in {x \in items \X items : x[1].id < x[2].id}}

\* Structure and order in one project: every handler, any order_index from
\* the caller, task contents left at their defaults.
Next ==
    \/ /\ next_id(tasks) <= MaxRows
       /\ \E d \in CreateData({1}, {0}, {"Not Started"}, {0}) : create_task(1, d)
       /\ UNCHANGED concurrent
    \/ \E t \in RowIds : \E o \in 0..MaxOrder :
          update_task(t, [order_index |-> o])
       /\ UNCHANGED concurrent
    \/ \E t \in RowIds : delete_task(t)
       /\ UNCHANGED concurrent
    \/ \E t \in RowIds : indent_task(t)
       /\ UNCHANGED concurrent
    \/ \E t \in RowIds : outdent_task(t)
       /\ UNCHANGED concurrent
    \/ \E o \in TaskOrders(RowIds, 0..MaxOrder) : reorder_tasks(1, o)
       /\ UNCHANGED concurrent

Spec == Init /\ [][Next]_vars

\* Two projects side by side.
NextProjects ==
    \/ /\ next_id(tasks) <= MaxRows
       /\ \E p \in Projects : \E d \in CreateData({1}, {0}, {"Not Started"}, {0}) :
             create_task(p, d)
       /\ UNCHANGED concurrent
    \/ \E t \in RowIds : \E o \in 0..MaxOrder :
          update_task(t, [order_index |-> o])
       /\ UNCHANGED concurrent
    \/ \E t \in RowIds : delete_task(t)
       /\ UNCHANGED concurrent
    \/ \E t \in RowIds : indent_task(t)
       /\ UNCHANGED concurrent
    \/ \E t \in RowIds : outdent_task(t)
       /\ UNCHANGED concurrent
    \/ \E p \in Projects : \E o \in OneTaskOrder(RowIds, 0..MaxOrder) :
          reorder_tasks(p, o)
       /\ UNCHANGED concurrent

SpecProjects == Init /\ [][NextProjects]_vars

\* Dates and estimates: tasks are created and edited with any dates and
\* estimates, and reorder_tasks moves one task to the front.  A task that
\* stops being a summary keeps the estimate summed into it, so estimates grow
\* without limit: a step is taken only while they stay within MaxTotal.
NextDates ==
    /\ \/ /\ next_id(tasks) <= MaxRows
          /\ \E d \in CreateData(1..MaxDate, 0..MaxEstimate, {"Not Started"}, {0}) :
                create_task(1, d)
       \/ \E t \in RowIds :
             \E d \in {[start_date |-> x] : x \in 1..MaxDate}
                      \cup {[end_date |-> x] : x \in 1..MaxDate}
                      \cup {[estimate |-> e] : e \in 0..MaxEstimate}
                      \cup {[start_date |-> x, end_date |-> x] : x \in 1..MaxDate} :
                update_task(t, d)
       \/ \E t \in RowIds : delete_task(t)
       \/ \E t \in RowIds : indent_task(t)
       \/ \E t \in RowIds : outdent_task(t)
       \/ \E o \in OneTaskOrder(RowIds, {0}) : reorder_tasks(1, o)
    /\ \A t \in DOMAIN tasks' : tasks'[t].estimate <= MaxTotal
    /\ UNCHANGED concurrent

SpecDates == Init /\ [][NextDates]_vars

\* Statuses: tasks are created and edited with any status.
NextStatus ==
    \/ /\ next_id(tasks) <= MaxRows
       /\ \E d \in CreateData({1}, {0}, Statuses, {0}) : create_task(1, d)
       /\ UNCHANGED concurrent
    \/ \E t \in RowIds : \E s \in Statuses : update_task(t, [status |-> s])
       /\ UNCHANGED concurrent
    \/ \E t \in RowIds : delete_task(t)
       /\ UNCHANGED concurrent
    \/ \E t \in RowIds : indent_task(t)
       /\ UNCHANGED concurrent
    \/ \E t \in RowIds : outdent_task(t)
       /\ UNCHANGED concurrent

SpecStatus == Init /\ [][NextStatus]_vars

\* The tree alone: tasks are created, deleted, indented and outdented, the
\* order is left to the handlers.
NextTree ==
    \/ \E d \in CreateData({1}, {0}, {"Not Started"}, {0}) : create_task(1, d)
       /\ UNCHANGED concurrent
    \/ \E t \in TaskIds : delete_task(t)
       /\ UNCHANGED concurrent
    \/ \E t \in TaskIds : indent_task(t)
       /\ UNCHANGED concurrent
    \/ \E t \in TaskIds : outdent_task(t)
       /\ UNCHANGED concurrent

SpecTree == Init /\ [][NextTree]_vars

\* The whole pipeline, run on the tables the handlers leave: tasks created
\* complete or not started, any task moved to the front or the back by the
\* caller.
NextPipeline ==
    \/ /\ next_id(tasks) <= MaxRows
       /\ \E d \in CreateData({1}, {0}, {"Not Started", "Complete"}, {0}) :
             create_task(1, d)
       /\ UNCHANGED concurrent
    \/ \E t \in RowIds : \E o \in {0, MaxOrder} :
          update_task(t, [order_index |-> o])
       /\ UNCHANGED concurrent
    \/ \E t \in RowIds : delete_task(t)
       /\ UNCHANGED concurrent
    \/ \E t \in RowIds : indent_task(t)
       /\ UNCHANGED concurrent
    \/ \E t \in RowIds : outdent_task(t)
       /\ UNCHANGED concurrent
    \/ run_pipeline(1)
       /\ UNCHANGED concurrent

SpecPipeline == Init /\ [][NextPipeline]_vars

\* Rejected requests: tasks are created and edited with any dates, valid or
\* not, moved to the front or the back by the caller, indented and outdented.
NextErrors ==
    \/ /\ next_id(tasks) <= MaxRows
       /\ \E d \in CreateData(1..MaxDate, {0}, {"Not Started"}, {0}) :
             create_task(1, d)
       /\ UNCHANGED concurrent
    \/ \E t \in RowIds :
          \E d \in {[start_date |-> x] : x \in 1..MaxDate}
                   \cup {[end_date |-> x] : x \in 1..MaxDate}
                   \cup {[order_index |-> o] : o \in {0, MaxOrder}} :
             update_task(t, d)
       /\ UNCHANGED concurrent
    \/ \E t \in RowIds : delete_task(t)
       /\ UNCHANGED concurrent
    \/ \E t \in RowIds : indent_task(t)
       /\ UNCHANGED concurrent
    \/ \E t \in RowIds : outdent_task(t)
       /\ UNCHANGED concurrent

SpecErrors == Init /\ [][NextErrors]_vars

\* The progress values a caller supplies: the ends of the range, one inside
\* it and one beyond either end.
ProgressInputs == {-1, 0, 50, 100, 101}

\* Progress: tasks are created and edited with any progress.
NextProgress ==
    \/ /\ next_id(tasks) <= MaxRows
       /\ \E d \in CreateData({1}, {0}, {"Not Started"}, ProgressInputs) :
             create_task(1, d)
       /\ UNCHANGED concurrent
    \/ \E t \in RowIds : \E p \in ProgressInputs : update_task(t, [progress |-> p])
       /\ UNCHANGED concurrent
    \/ \E t \in RowIds : delete_task(t)
       /\ UNCHANGED concurrent
    \/ \E t \in RowIds : indent_task(t)
       /\ UNCHANGED concurrent
    \/ \E t \in RowIds : outdent_task(t)
       /\ UNCHANGED concurrent

SpecProgress == Init /\ [][NextProgress]_vars

\* task_orders of one or two items about any tasks, the same task twice
\* included.
ReorderLists(ids, orders) ==
    LET items == [id : ids, order_index : orders]
    IN {<<a>> : a \in items} \cup {<<ab[1], ab[2]>> : ab \in items \X items}

\* Reordering in two projects: tasks are created in either project, deleted,
\* indented and outdented, and the caller reorders with any list.
NextReorder ==
    \/ /\ next_id(tasks) <= MaxRows
       /\ \E p \in Projects : \E d \in CreateData({1}, {0}, {"Not Started"}, {0}) :
             create_task(p, d)
       /\ UNCHANGED concurrent
    \/ \E t \in RowIds : delete_task(t)
       /\ UNCHANGED concurrent
    \/ \E t \in RowIds : indent_task(t)
       /\ UNCHANGED concurrent
    \/ \E t \in RowIds : outdent_task(t)
       /\ UNCHANGED concurrent
    \/ \E p \in Projects : \E o \in ReorderLists(RowIds, 0..MaxOrder) :
          reorder_tasks(p, o)
       /\ UNCHANGED concurrent

SpecReorder == Init /\ [][NextReorder]_vars

\* Requests side by side: tasks are created while no request is in flight;
\* indent and outdent requests run in two sessions, at most two to an overlap.
NextSessions ==
    \/ /\ AllIdle(sessions)
       /\ next_id(tasks) <= MaxRows
       /\ \E d \in CreateData({1}, {0}, {"Not Started"}, {0}) : create_task(1, d)
       /\ UNCHANGED concurrent
    \/ \E s \in Sessions : \E t \in RowIds : load_indent(s, t)
    \/ \E s \in Sessions : \E t \in RowIds : load_outdent(s, t)
    \/ \E s \in Sessions : commit_session(s)
    \/ \E s \in Sessions : recalculate_session(s)

SpecSessions == Init /\ [][NextSessions]_vars

\* ---------------------------------------------------------------------------
\* The tree as the properties see it
\* ---------------------------------------------------------------------------

\* The tasks whose parent is t.
Children(ts, t) == {c \in DOMAIN ts : ts[c].parent_id = t}

RECURSIVE AncestorsWithin(_, _, _)
\* The tasks met on the way up from t, following at most k parent references.
AncestorsWithin(ts, t, k) ==
    IF k = 0 \/ ts[t].parent_id \notin DOMAIN ts THEN {}
    ELSE {ts[t].parent_id} \cup AncestorsWithin(ts, ts[t].parent_id, k - 1)

Ancestors(ts, t) == AncestorsWithin(ts, t, Cardinality(DOMAIN ts))

Descendants(ts, t) == {d \in DOMAIN ts : t \in Ancestors(ts, d)}

\* The descendants of t that have no children.
DescendantLeaves(ts, t) == {d \in Descendants(ts, t) : Children(ts, d) = {}}

SetMin(S) == CHOOSE m \in S : \A x \in S : m <= x

SetMax(S) == CHOOSE m \in S : \A x \in S : x <= m

RECURSIVE SumOfEstimates(_, _)
SumOfEstimates(ts, S) ==
    IF S = {} THEN 0
    ELSE LET x == CHOOSE y \in S : TRUE
         IN ts[x].estimate + SumOfEstimates(ts, S \ {x})

\* A handler has just returned success.
Completed(ops) == last.op \in ops /\ last.code \in {200, 201}

\* order_index is a 0-based permutation of the project's tasks in which every
\* subtree takes the consecutive positions that start at its root: a preorder
\* depth-first traversal of the forest.
OrderIsPreorder(ts, project_id) ==
    LET S == filter_by_project(ts, project_id)
    IN /\ {ts[t].order_index : t \in S} = 0..(Cardinality(S) - 1)
       /\ \A t \in S :
             {ts[d].order_index : d \in Descendants(ts, t) \cup {t}}
                 = ts[t].order_index..(ts[t].order_index + Cardinality(Descendants(ts, t)))

\* Siblings of the table new stand in the order they had in the table old.
SiblingOrderKept(old, new, project_id) ==
    \A a, b \in filter_by_project(new, project_id) :
        (new[a].parent_id = new[b].parent_id
            /\ old[a].order_index < old[b].order_index)
        => new[a].order_index < new[b].order_index

\* Within every group of siblings the WBS codes are the parent's code (nothing
\* for roots) followed by 1, 2, ..., one each, in the order of order_index.
WbsFollowsOrder(ts, project_id) ==
    LET S == filter_by_project(ts, project_id)
    IN \A parent \in S \cup {None} :
          LET G == {t \in S : ts[t].parent_id = parent}
              prefix == IF parent = None THEN <<>> ELSE ts[parent].wbs_code
          IN /\ {ts[t].wbs_code : t \in G} = {Append(prefix, j) : j \in 1..Cardinality(G)}
             /\ \A a, b \in G :
                   ts[a].order_index < ts[b].order_index
                   => ts[a].wbs_code[Len(prefix) + 1] < ts[b].wbs_code[Len(prefix) + 1]

\* The status the statuses S of a task's children stand for.
DerivedStatus(S) ==
    CASE "In Progress" \in S -> "In Progress"
      [] "In Progress" \notin S /\ S = {"Complete"} -> "Complete"
      [] "In Progress" \notin S /\ S = {"Not Started"} -> "Not Started"
      [] OTHER -> "In Progress"

\* Every task of the project stands on the level of its nesting depth: a task
\* without a parent on level 0, any other one level below its parent.
LevelsAreDepths(ts, project_id) ==
    \A t \in filter_by_project(ts, project_id) :
        IF ts[t].parent_id = None THEN ts[t].level = 0
        ELSE /\ ts[t].parent_id \in DOMAIN ts
             /\ ts[t].level = ts[ts[t].parent_id].level + 1

\* Task a comes before task b in the order of the project: by order_index, and
\* by row id where two tasks hold the same order_index.
Precedes(ts, a, b) ==
    \/ ts[a].order_index < ts[b].order_index
    \/ ts[a].order_index = ts[b].order_index /\ a < b

\* P is the nearest task before T in the order of T's project whose level is
\* not deeper than level.
NearestPreceding(ts, T, level, P) ==
    LET before == {p \in filter_by_project(ts, ts[T].project_id) :
                      Precedes(ts, p, T) /\ ts[p].level <= level}
    IN /\ P \in before
       /\ \A q \in before \ {P} : Precedes(ts, q, P)

\* The order_index the list task_orders asks for the task t: that of the last
\* item about t.
Requested(task_orders, t) ==
    LET about == {i \in DOMAIN task_orders : task_orders[i].id = t}
    IN task_orders[SetMax(about)].order_index

\* The tasks the list task_orders names.
Listed(task_orders) == {task_orders[i].id : i \in DOMAIN task_orders}

\* The table the request r leaves when it runs alone on the table ts.
Alone(ts, r) ==
    IF r.op = "indent_task" THEN indent_task_result(ts, r.id)
    ELSE outdent_task_result(ts, r.id)

\* The tables the two requests of an overlap leave when one runs after the
\* other, in either order, from the table the overlap started from.
SerialOutcomes(h) ==
    {Alone(Alone(h.base, h.ops[1]), h.ops[2]),
     Alone(Alone(h.base, h.ops[2]), h.ops[1])}

\* Two requests have overlapped and both have returned.
OverlapDone == AllIdle(sessions) /\ Len(history.ops) = 2

\* ---------------------------------------------------------------------------
\* Properties
\* ---------------------------------------------------------------------------

C2_OrderAfterRestructure ==
    [][(/\ last'.op \in {"indent_task", "outdent_task", "delete_task"}
        /\ last'.code = 200)
       => /\ OrderIsPreorder(tasks', last'.project_id)
          /\ SiblingOrderKept(tasks, tasks', last'.project_id)]_vars

\* An indent has left a root with a child, followed by a second root.
C2_Witness ==
    /\ Completed({"indent_task"})
    /\ \E a, b, c \in DOMAIN tasks :
          /\ tasks[a].parent_id = None /\ tasks[c].parent_id = None
          /\ tasks[b].parent_id = a
          /\ tasks[a].order_index < tasks[b].order_index
          /\ tasks[b].order_index < tasks[c].order_index

\* C3: after a successful create, delete, indent, outdent or reorder, the k-th
\* root by order_index has WBS code "k" and the j-th child by order_index of a
\* task with code C has code "C.j"; no two tasks of the project share a code.
C3_WbsCodes ==
    Completed({"create_task", "delete_task", "indent_task", "outdent_task",
               "reorder_tasks"})
    => /\ WbsFollowsOrder(tasks, last.project_id)
       /\ \A a, b \in filter_by_project(tasks, last.project_id) :
             a # b => tasks[a].wbs_code # tasks[b].wbs_code

\* A reorder has put a task with a higher id in front of one with a lower id,
\* among the children of one task.
C3_Witness ==
    /\ Completed({"reorder_tasks"})
    /\ \E a, b \in DOMAIN tasks :
          /\ a < b
          /\ tasks[a].parent_id = tasks[b].parent_id
          /\ tasks[a].parent_id # None
          /\ tasks[b].order_index < tasks[a].order_index
          /\ tasks[b].wbs_code = <<1, 1>>

\* C4: in every state a mutation leaves, is_summary of a task is true exactly
\* when some task has it as parent.
C4_SummaryIffChildren ==
    \A t \in DOMAIN tasks : tasks[t].is_summary <=> Children(tasks, t) # {}

\* An outdent has turned the only child of a root into a root with a child of
\* its own, and the former parent into a task without children.
C4_Witness ==
    /\ Completed({"outdent_task"})
    /\ tasks[last.id].parent_id = None
    /\ Children(tasks, last.id) # {}
    /\ \E u \in DOMAIN tasks :
          /\ u # last.id
          /\ tasks[u].parent_id = None
          /\ Children(tasks, u) = {}

\* C5: the parent relation is a forest: no task is its own ancestor, and every
\* parent reference names an existing task of the same project.
C5_Forest ==
    \A t \in DOMAIN tasks :
        /\ t \notin Ancestors(tasks, t)
        /\ tasks[t].parent_id # None =>
              /\ tasks[t].parent_id \in DOMAIN tasks
              /\ tasks[tasks[t].parent_id].project_id = tasks[t].project_id

\* A delete has left a task under a parent created before the deleted task,
\* the task itself created after it.
C5_Witness ==
    /\ Completed({"delete_task"})
    /\ \E t \in DOMAIN tasks :
          /\ tasks[t].parent_id # None
          /\ tasks[t].parent_id < last.id
          /\ last.id < t

\* C6: after every mutation, reorder and an update that supplies order_index
\* included, the order_index values of a project are a 0-based permutation in
\* a preorder depth-first traversal of the forest.
C6_OrderAlwaysPreorder ==
    \A p \in Projects : OrderIsPreorder(tasks, p)

\* C7: after every mutation the status of a task that has children is the
\* status derived from the statuses of its children.
C7_SummaryStatusDerived ==
    \A t \in DOMAIN tasks :
        Children(tasks, t) # {} =>
            tasks[t].status = DerivedStatus({tasks[c].status : c \in Children(tasks, t)})

\* C8: status propagation over any forest and any statuses leaves every task
\* that has children with the status derived from the propagated statuses of
\* its children, and changes nothing else.
C8_StatusPropagation ==
    \A p \in Projects :
        LET r == recalculate_summary_status(tasks, p)
        IN /\ DOMAIN r = DOMAIN tasks
           /\ \A t \in DOMAIN tasks :
                 IF tasks[t].project_id = p /\ Children(tasks, t) # {}
                 THEN r[t] = [tasks[t] EXCEPT
                                 !.status = DerivedStatus({r[c].status : c \in Children(tasks, t)})]
                 ELSE r[t] = tasks[t]

\* A chain of three tasks in which propagation changes the status of the
\* middle task and, through it, the status of the root.
C8_Witness ==
    LET r == recalculate_summary_status(tasks, 1)
    IN \E a, b, c \in DOMAIN tasks :
          /\ tasks[b].parent_id = a /\ tasks[c].parent_id = b
          /\ r[b].status # tasks[b].status
          /\ r[a].status # tasks[a].status
          /\ r[a].status # DerivedStatus({tasks[b].status})

\* C9: when update_task changes the status of a leaf, the only tasks whose
\* status differs afterwards are that leaf and its ancestors.
C9_OnlyAncestorsChange ==
    [][(/\ last'.op = "update_task" /\ last'.code = 200
        /\ Children(tasks, last'.id) = {}
        /\ tasks'[last'.id].status # tasks[last'.id].status)
       => \A t \in DOMAIN tasks :
             tasks'[t].status # tasks[t].status
             => t = last'.id \/ t \in Ancestors(tasks, last'.id)]_vars

\* C10: a run of the pipeline on a table that a run of the pipeline has just
\* left changes no field of any task.
C10_PipelineIdempotent ==
    [][(last.op = "pipeline" /\ last'.op = "pipeline") => tasks' = tasks]_vars

\* A pipeline run has left a chain of three tasks, complete from the leaf up.
C10_Witness ==
    /\ last.op = "pipeline"
    /\ \E a, b, c \in DOMAIN tasks :
          /\ tasks[b].parent_id = a /\ tasks[c].parent_id = b
          /\ tasks[c].status = "Complete"
          /\ tasks[a].status = "Complete"

\* C11: an operation that reports a validation error (indent of the first
\* task, indent with no task before it at its level or above, outdent of a
\* root, create or update with the end date before the start date) leaves the
\* stored tasks exactly as they were.
C11_ErrorLeavesStore ==
    [][last'.code = 400 => tasks' = tasks]_vars

\* An indent has been rejected for a task that is not the first of its
\* project: every task before it lies deeper.
C11_Witness ==
    /\ last.op = "indent_task" /\ last.code = 400
    /\ index_of(query_ordered(tasks, last.project_id), last.id) > 1

\* C12: for a task T whose nearest preceding task at its level or above is a
\* sibling P of T, indent_task(T) followed at once by outdent_task(T) leaves T
\* with the parent and the level it had before the indent.
C12_IndentOutdentRoundTrip ==
    \A T \in DOMAIN tasks :
        (/\ ~indent_rejected(tasks, T)
         /\ tasks[indent_parent(tasks, T)].parent_id = tasks[T].parent_id)
        => LET indented == indent_task_result(tasks, T)
               outdented == outdent_task_result(indented, T)
           IN /\ ~outdent_rejected(indented, T)
              /\ outdented[T].parent_id = tasks[T].parent_id
              /\ outdented[T].level = tasks[T].level

C14_NoPartialPipelineState ==
    \A s \in Sessions :
        sessions[s].pc \in {"update_wbs_codes", "recalculate_summary_dates",
                            "recalculate_order_indices"}
        => tasks = recalculate_hierarchy(tasks, tasks[sessions[s].id].project_id)

\* C15: two structural edits that run side by side can leave a table that
\* neither order of running them one after the other leaves: whenever an
\* indent commits under a parent whose level the other request has changed
\* since the indent loaded it, the table both requests leave behind is not a
\* serial outcome.
C15_StaleIndentNotSerial ==
    (OverlapDone /\ history.stale) => tasks \notin SerialOutcomes(history)

\* Both requests of an overlap have returned, one of them an indent committed
\* under a parent the other had moved, and the indented task stands on the
\* level of its parent.
C15_Witness ==
    /\ OverlapDone /\ history.stale
    /\ \E t \in DOMAIN tasks :
          /\ tasks[t].parent_id # None
          /\ tasks[t].level = tasks[tasks[t].parent_id].level

\* C16: a task created by create_task is appended at the end of the order: it
\* is a root at level 0 and its order_index is greater than the order_index of
\* every other task of the project.
C16_CreateAppends ==
    [][(last'.op = "create_task" /\ last'.code = 201)
       => LET new == last'.id
          IN /\ tasks'[new].parent_id = None
             /\ tasks'[new].level = 0
             /\ \A t \in filter_by_project(tasks', last'.project_id) \ {new} :
                   tasks'[t].order_index < tasks'[new].order_index]_vars

\* C17: the progress of every stored task is within 0..100 in every state: a
\* value outside the range given to create_task or update_task is clamped.
C17_ProgressInRange ==
    \A t \in DOMAIN tasks : tasks[t].progress \in 0..100

\* C18: in every state every task without children ends on or after the day
\* it starts, a task that had children and lost them by an outdent or a delete
\* included.
C18_LeafDatesOrdered ==
    \A t \in DOMAIN tasks :
        Children(tasks, t) = {} => tasks[t].end_date >= tasks[t].start_date

\* An outdent or a delete has left without children a task that keeps the
\* dates and the estimate it had from two leaves: it spans from the first day
\* to the last and holds more than a caller can supply.
C18_Witness ==
    /\ Completed({"outdent_task", "delete_task"})
    /\ \E t \in DOMAIN tasks :
          /\ Children(tasks, t) = {}
          /\ tasks[t].estimate > MaxEstimate
          /\ tasks[t].start_date = 1 /\ tasks[t].end_date = MaxDate

\* C19: update_task on a task that has children never sets its start_date,
\* end_date or estimate to what the caller supplies: after the operation the
\* three fields are what they were, the values derived from its descendants.
C19_SummaryDatesReadOnly ==
    [][(/\ last'.op = "update_task" /\ last'.code = 200
        /\ Children(tasks, last'.id) # {})
       => LET t == last'.id
              L == DescendantLeaves(tasks', t)
          IN /\ tasks'[t].start_date = tasks[t].start_date
             /\ tasks'[t].end_date = tasks[t].end_date
             /\ tasks'[t].estimate = tasks[t].estimate
             /\ tasks'[t].start_date = SetMin({tasks'[l].start_date : l \in L})
             /\ tasks'[t].end_date = SetMax({tasks'[l].end_date : l \in L})
             /\ tasks'[t].estimate = SumOfEstimates(tasks', L)]_vars

\* An update has returned for a task with children whose dates span from the
\* first day to the last and whose estimate is more than a caller can supply.
C19_Witness ==
    /\ Completed({"update_task"})
    /\ Children(tasks, last.id) # {}
    /\ tasks[last.id].start_date = 1
    /\ tasks[last.id].end_date = MaxDate
    /\ tasks[last.id].estimate > MaxEstimate

\* C20: an update_task that supplies a status for a task that has children
\* does not leave that status in effect: when it returns, the status of the
\* task is the one derived from the statuses of its children.
C20_SummaryStatusNotEditable ==
    [][(/\ last'.op = "update_task" /\ last'.code = 200
        /\ Children(tasks, last'.id) # {})
       => tasks'[last'.id].status
             = DerivedStatus({tasks'[c].status : c \in Children(tasks', last'.id)})]_vars

\* An update has returned for a task in the middle of a chain whose only
\* child is on hold: the task is in progress, a status its child does not
\* have.
C20_Witness ==
    /\ Completed({"update_task"})
    /\ tasks[last.id].parent_id # None
    /\ Children(tasks, last.id) # {}
    /\ \A c \in Children(tasks, last.id) : tasks[c].status = "On Hold"
    /\ tasks[last.id].status = "In Progress"

\* C21: in every state reached by create, indent, outdent and delete requests
\* the level of each task is its nesting depth: 0 for a task without a parent,
\* the level of its parent plus 1 for any other, at every depth.
C21_LevelIsDepth == LevelsAreDepths(tasks, 1)

\* C22: every successful indent_task(T) moves T one level deeper: the level of
\* T afterwards is its level before plus 1, its new parent is the nearest task
\* before T in project order whose level was not deeper than the level of T,
\* and every descendant of T stands one level deeper than before.
C22_IndentOneLevelDeeper ==
    [][(last'.op = "indent_task" /\ last'.code = 200)
       => LET T == last'.id
          IN /\ tasks'[T].level = tasks[T].level + 1
             /\ NearestPreceding(tasks, T, tasks[T].level, tasks'[T].parent_id)
             /\ \A d \in Descendants(tasks, T) :
                   tasks'[d].level = tasks[d].level + 1]_vars

\* C23: on a table whose levels are depths and whose order is a preorder
\* traversal, a successful outdent_task(T) with old parent OP makes T a sibling
\* of OP (the parent of OP as its parent, the level of OP as its level), makes
\* exactly the children of OP that came after T children of T, after the
\* children T had, and leaves the children of OP that came before T with OP.
C23_OutdentCapturesLaterSiblings ==
    [][(/\ last'.op = "outdent_task" /\ last'.code = 200
        /\ LevelsAreDepths(tasks, last'.project_id)
        /\ OrderIsPreorder(tasks, last'.project_id))
       => LET T == last'.id
              OP == tasks[T].parent_id
              later == {c \in Children(tasks, OP) : Precedes(tasks, T, c)}
              earlier == {c \in Children(tasks, OP) : Precedes(tasks, c, T)}
          IN /\ tasks'[T].parent_id = tasks[OP].parent_id
             /\ tasks'[T].level = tasks[OP].level
             /\ Children(tasks', T) = Children(tasks, T) \cup later
             /\ \A e \in Children(tasks, T) : \A c \in later : Precedes(tasks', e, c)
             /\ \A c \in earlier : tasks'[c].parent_id = OP]_vars

\* An outdent has returned success for a task that now has two children or
\* more and stands right after a sibling that has kept a child.
C23_Witness ==
    /\ Completed({"outdent_task"})
    /\ LevelsAreDepths(tasks, last.project_id)
    /\ OrderIsPreorder(tasks, last.project_id)
    /\ Cardinality(Children(tasks, last.id)) >= 2
    /\ \E OP \in DOMAIN tasks :
          /\ tasks[OP].parent_id = tasks[last.id].parent_id
          /\ Precedes(tasks, OP, last.id)
          /\ Children(tasks, OP) # {}
          /\ tasks[last.id].order_index
                = tasks[OP].order_index + Cardinality(Descendants(tasks, OP)) + 1

\* C24: reorder_tasks(project, list) gives every listed task of that project
\* the order_index the list asks for and leaves the order_index of every other
\* task as it was, a listed task of another project included (a listed id
\* that does not exist adds no row); the order indexer is not run, so the
\* stored values are the caller's, gaps and duplicates included.
C24_ReorderSetsRequested ==
    \A p \in Projects : \A o \in ReorderLists(RowIds, 0..MaxOrder) :
        LET after == reorder_tasks_result(tasks, p, o)
        IN /\ DOMAIN after = DOMAIN tasks
           /\ \A t \in DOMAIN tasks :
                 after[t].order_index =
                     IF t \in Listed(o) /\ tasks[t].project_id = p
                     THEN Requested(o, t)
                     ELSE tasks[t].order_index

\* A reorder has returned and left two tasks of its project on the same
\* order_index and a position below them empty, next to a task of the other
\* project.
C24_Witness ==
    /\ Completed({"reorder_tasks"})
    /\ \E a, b \in filter_by_project(tasks, last.project_id) :
          /\ a # b
          /\ tasks[a].order_index = tasks[b].order_index
          /\ tasks[a].order_index > 0
          /\ \A t \in filter_by_project(tasks, last.project_id) :
                tasks[t].order_index # 0
    /\ \E t \in DOMAIN tasks : tasks[t].project_id # last.project_id

C26_TaskCodesUnique ==
    \A a, b \in DOMAIN tasks :
        (a # b /\ tasks[a].project_id = tasks[b].project_id)
        => tasks[a].task_id # tasks[b].task_id

====
